---- MODULE Spec2Model ----
(***************************************************************************)
(* Softmacs: the arena heap (put / get / mark / sweep), the V0 value       *)
(* constructors, the reader (tokenize / parse) and the printer (show).     *)
(* A slot index is 0-based as in the source; slot i is nodes[i + 1].       *)
(* Text (source text, symbol names, rendered output) is a sequence of      *)
(* one-character strings.                                                  *)
(***************************************************************************)
EXTENDS Integers, Sequences, FiniteSets, TLC

VARIABLES
  capacity,   \* the capacity the heap was constructed with
  nodes,      \* Heap.nodes: the slots
  time,       \* Heap.time: the stamp counter
  pc,         \* "idle", or "mark" while Heap::mark's loop runs
  m_pointer,  \* Heap::mark: its parameter `pointer`
  m_mark,     \* Heap::mark: the local vector `mark`
  m_seen,     \* Heap::mark: the local set `seen`
  op,         \* the last call made: [name, arg]
  ret,        \* what the last call that returned has returned
  pre,        \* the heap as it was when the last call was made
  issued,     \* the pointers put has returned so far
  reclaimed,  \* the issued pointers whose slot a sweep has reset to None
  count,      \* Heap::sweep: the count it printed last
  gc,         \* bookkeeping of collection cycles (roots marked, allocation seen)
  src,        \* the source text handed to read
  phase,      \* reader side: "typing", "read", "shown"
  out         \* the results of show, one per value read

vars == <<capacity, nodes, time, pc, m_pointer, m_mark, m_seen, op, ret, pre, issued,
          reclaimed, count, gc, src, phase, out>>

heapVars == <<capacity, nodes, time, pc, m_pointer, m_mark, m_seen, op, ret, pre, issued,
              reclaimed, count, gc>>

readVars == <<capacity, src, phase, out>>

(***************************************************************************)
(* Bounds of the model.                                                    *)
(***************************************************************************)
Capacity == 2

MaxTime == 5

ConsCapacity == 3

DriverCapacity == 3

SweepCapacity == 3

ReadCapacity == 5

MaxSrcLen == 5

(***************************************************************************)
(* Values.                                                                 *)
(***************************************************************************)
Ok(value) == [ok |-> TRUE, value |-> value]

Err(error) == [ok |-> FALSE, error |-> error]

\* The value of ret while a call has not returned.
Running == [running |-> TRUE]

Gc(index, timestamp) == [index |-> index, timestamp |-> timestamp]

Unit == [tag |-> "Unit"]

Bool(value) == [tag |-> "Bool", value |-> value]

Symbol(value) == [tag |-> "Symbol", name |-> value]

Pair(fst, snd, is_list) ==
  [tag |-> "Pair", fst |-> fst, snd |-> snd, is_list |-> is_list]

NatTag == {"Pair", "Fst", "Snd", "Eval", "Init", "Shift", "Reset", "And", "Or", "Not"}

ProcNat(nat) == [tag |-> "Proc", proc |-> [tag |-> "Nat", nat |-> nat]]

ProcApp(inner) == [tag |-> "Proc", proc |-> [tag |-> "App", inner |-> inner]]

ProcAbs(head, tail, lexical, dynamic) ==
  [tag |-> "Proc",
   proc |-> [tag |-> "Abs", head |-> head, tail |-> tail,
             lexical |-> lexical, dynamic |-> dynamic]]

None == [tag |-> "None"]

Some(object, timestamp) ==
  [tag |-> "Some", object |-> object, timestamp |-> timestamp]

Mark(object, timestamp) ==
  [tag |-> "Mark", object |-> object, timestamp |-> timestamp]

is_unit(object) == object.tag = "Unit"

is_none(node) == node.tag = "None"

is_some(node) == node.tag = "Some"

is_mark(node) == node.tag = "Mark"

(***************************************************************************)
(* The heap, as functions of a heap value h = [nodes, time].               *)
(***************************************************************************)
Heap_with_capacity(n) ==
  [nodes |-> [i \in 1..n |-> None], time |-> 0]

\* Heap::put that grows the vector instead of failing when no slot is None.
Heap_put_grows(h, object) ==
  LET free == {i \in 1..Len(h.nodes) : is_none(h.nodes[i])}
  IN  IF free = {}
      THEN [heap |-> [nodes |-> Append(h.nodes, Some(object, h.time)),
                      time  |-> h.time + 1],
            ret  |-> Ok(Gc(Len(h.nodes), h.time))]
      ELSE LET i == CHOOSE j \in free : \A k \in free : j <= k
           IN  [heap |-> [nodes |-> [h.nodes EXCEPT ![i] = Some(object, h.time)],
                          time  |-> h.time + 1],
                ret  |-> Ok(Gc(i - 1, h.time))]

\* Heap::put without `self.time += 1`.
Heap_put_no_tick(h, object) ==
  LET free == {i \in 1..Len(h.nodes) : is_none(h.nodes[i])}
  IN  IF free = {}
      THEN [heap |-> h, ret |-> Err("Space")]
      ELSE LET i == CHOOSE j \in free : \A k \in free : j <= k
           IN  [heap |-> [nodes |-> [h.nodes EXCEPT ![i] = Some(object, h.time)],
                          time  |-> h.time],
                ret  |-> Ok(Gc(i - 1, h.time))]

\* Heap::put that takes the last None slot instead of the first.
Heap_put_last_fit(h, object) ==
  LET free == {i \in 1..Len(h.nodes) : is_none(h.nodes[i])}
  IN  IF free = {}
      THEN [heap |-> h, ret |-> Err("Space")]
      ELSE LET i == CHOOSE j \in free : \A k \in free : j >= k
           IN  [heap |-> [nodes |-> [h.nodes EXCEPT ![i] = Some(object, h.time)],
                          time  |-> h.time + 1],
                ret  |-> Ok(Gc(i - 1, h.time))]

Heap_put(h, object) ==
  LET free == {i \in 1..Len(h.nodes) : is_none(h.nodes[i])}
  IN  IF free = {}
      THEN [heap |-> h, ret |-> Err("Space")]
      ELSE LET i == CHOOSE j \in free : \A k \in free : j <= k
           IN  [heap |-> [nodes |-> [h.nodes EXCEPT ![i] = Some(object, h.time)],
                          time  |-> h.time + 1],
                ret  |-> Ok(Gc(i - 1, h.time))]

\* Heap::get without the comparison of stamps.
Heap_get_no_stamp(h, pointer) ==
  LET node == h.nodes[pointer.index + 1]
  IN  IF is_none(node) THEN Err("Pointer") ELSE Ok(node.object)

\* Heap::get that compares the stamps with > and so lets an older pointer through.
Heap_get_older_ok(h, pointer) ==
  LET node == h.nodes[pointer.index + 1]
  IN  IF is_none(node)
      THEN Err("Pointer")
      ELSE IF pointer.timestamp > node.timestamp
           THEN Err("Pointer")
           ELSE Ok(node.object)

Heap_get(h, pointer) ==
  LET node == h.nodes[pointer.index + 1]
  IN  IF is_none(node)
      THEN Err("Pointer")
      ELSE IF pointer.timestamp # node.timestamp
           THEN Err("Pointer")
           ELSE Ok(node.object)

\* Heap::sweep whose Some arm counts the slot but leaves it in place.
Heap_sweep_keeps(h) ==
  [heap  |-> [nodes |-> [i \in 1..Len(h.nodes) |->
                           IF is_mark(h.nodes[i])
                           THEN Some(h.nodes[i].object, h.nodes[i].timestamp)
                           ELSE h.nodes[i]],
              time  |-> h.time + 1],
   count |-> Cardinality({i \in 1..Len(h.nodes) : is_some(h.nodes[i])})]

\* Heap::sweep with the Some and Mark arms swapped.
Heap_sweep_swapped(h) ==
  [heap  |-> [nodes |-> [i \in 1..Len(h.nodes) |->
                           IF is_none(h.nodes[i]) THEN None
                           ELSE IF is_mark(h.nodes[i]) THEN None
                           ELSE Some(h.nodes[i].object, h.nodes[i].timestamp)],
              time  |-> h.time + 1],
   count |-> Cardinality({i \in 1..Len(h.nodes) : is_mark(h.nodes[i])})]

\* Heap::sweep that counts the Mark slots along with the Some slots.
Heap_sweep_counts_marked(h) ==
  [heap  |-> [nodes |-> [i \in 1..Len(h.nodes) |->
                           IF is_none(h.nodes[i]) THEN None
                           ELSE IF is_some(h.nodes[i]) THEN None
                           ELSE Some(h.nodes[i].object, h.nodes[i].timestamp)],
              time  |-> h.time + 1],
   count |-> Cardinality({i \in 1..Len(h.nodes) : ~is_none(h.nodes[i])})]

Heap_sweep(h) ==
  [heap  |-> [nodes |-> [i \in 1..Len(h.nodes) |->
                           IF is_none(h.nodes[i]) THEN None
                           ELSE IF is_some(h.nodes[i]) THEN None
                           ELSE Some(h.nodes[i].object, h.nodes[i].timestamp)],
              time  |-> h.time + 1],
   count |-> Cardinality({i \in 1..Len(h.nodes) : is_some(h.nodes[i])})]

\* Heap::mark, the match on the object: the pointers pushed on to_mark, in order.
to_mark_of(object) ==
  IF object.tag = "Pair" THEN <<object.fst, object.snd>>
  ELSE IF object.tag = "Proc"
       THEN IF object.proc.tag = "App" THEN <<object.proc.inner>>
            ELSE IF object.proc.tag = "Abs"
                 THEN <<object.proc.head, object.proc.tail,
                        object.proc.lexical, object.proc.dynamic>>
                 ELSE <<>>
       ELSE <<>>

\* Heap::mark, `for pointer in to_mark.iter()`: the unseen pointers are inserted
\* into seen and pushed on mark.
RECURSIVE push_unseen(_, _, _)
push_unseen(to_mark, s, m) ==
  IF to_mark = <<>>
  THEN [seen |-> s, mark |-> m]
  ELSE IF Head(to_mark) \in s
       THEN push_unseen(Tail(to_mark), s, m)
       ELSE push_unseen(Tail(to_mark), s \cup {Head(to_mark)},
                        Append(m, Head(to_mark)))

(***************************************************************************)
(* The V0 constructors.                                                    *)
(***************************************************************************)
V0_unit(h) == Heap_put(h, Unit)

V0_t(h) == Heap_put(h, Bool(TRUE))

V0_f(h) == Heap_put(h, Bool(FALSE))

V0_symbol(h, value) == Heap_put(h, Symbol(value))

\* V0::pair that takes every Pair in rest position for a list.
V0_pair_any_pair(h, fst, snd) ==
  LET got == Heap_get(h, snd)
  IN  IF ~got.ok
      THEN [heap |-> h, ret |-> got]
      ELSE LET is_list == got.value.tag \in {"Unit", "Pair"}
           IN  Heap_put(h, Pair(fst, snd, is_list))

V0_pair(h, fst, snd) ==
  LET got == Heap_get(h, snd)
  IN  IF ~got.ok
      THEN [heap |-> h, ret |-> got]
      ELSE LET is_list == IF got.value.tag = "Unit" THEN TRUE
                          ELSE IF got.value.tag = "Pair" THEN got.value.is_list
                          ELSE FALSE
           IN  Heap_put(h, Pair(fst, snd, is_list))

(***************************************************************************)
(* The evaluator.  eval, exec, evlis and apply have one statement each:    *)
(* `return Err(Error::Stub);`.  None of them calls its continuation.       *)
(***************************************************************************)
\* The continuation V0::eval passes: `|value, lisp| Ok(value)`.
rest_identity(value, h) == [heap |-> h, ret |-> Ok(value)]

eval(value, env, h) == [heap |-> h, ret |-> Err("Stub")]

exec(value, env, h) == [heap |-> h, ret |-> Err("Stub")]

evlis(value, env, h) == [heap |-> h, ret |-> Err("Stub")]

apply(proc, value, env, h) == [heap |-> h, ret |-> Err("Stub")]

V0_eval(h, value, env) == eval(value, env, h)

(***************************************************************************)
(* The reader: tokenize, then parse.                                       *)
(***************************************************************************)
Lparen == [kind |-> "Lparen"]

Rparen == [kind |-> "Rparen"]

SpaceToken(body) == [kind |-> "Space", body |-> body]

SymbolToken(body) == [kind |-> "Symbol", body |-> body]

IsSpace(rune) == rune \in {" ", "\t", "\r", "\n"}

IsDelimiter(rune) == rune \in {"(", ")"} \/ IsSpace(rune)

\* tokenize, the inner loop of the whitespace arm: the index where the run ends.
RECURSIVE space_run(_, _)
space_run(text, index) ==
  IF index <= Len(text) /\ IsSpace(text[index])
  THEN space_run(text, index + 1)
  ELSE index

\* tokenize, the inner loop of the default arm: the index where the run ends.
RECURSIVE symbol_run(_, _)
symbol_run(text, index) ==
  IF index <= Len(text) /\ ~IsDelimiter(text[index])
  THEN symbol_run(text, index + 1)
  ELSE index

RECURSIVE tokenize_from(_, _, _)
tokenize_from(text, index, tokens) ==
  IF index > Len(text)
  THEN tokens
  ELSE LET rune == text[index]
       IN  IF rune = "("
           THEN tokenize_from(text, index + 1, Append(tokens, Lparen))
           ELSE IF rune = ")"
           THEN tokenize_from(text, index + 1, Append(tokens, Rparen))
           ELSE IF IsSpace(rune)
           THEN LET end == space_run(text, index)
                IN  tokenize_from(text, end,
                      Append(tokens, SpaceToken(SubSeq(text, index, end - 1))))
           ELSE LET end == symbol_run(text, index)
                IN  tokenize_from(text, end,
                      Append(tokens, SymbolToken(SubSeq(text, index, end - 1))))

tokenize(text) == tokenize_from(text, 1, <<>>)

\* The Rparen arm folding `pointers` front to back: the list comes out reversed.
RECURSIVE fold_pairs_forward(_, _, _, _)
fold_pairs_forward(h, pointers, k, xs) ==
  IF k = 0
  THEN [heap |-> h, ret |-> Ok(xs)]
  ELSE LET r == V0_pair(h, pointers[Len(pointers) - k + 1], xs)
       IN  IF ~r.ret.ok THEN r
           ELSE fold_pairs_forward(r.heap, pointers, k - 1, r.ret.value)

\* parse, the Rparen arm: `for pointer in pointers.iter().rev()`, from the
\* element at position k down to the first; stops at the first error.
RECURSIVE fold_pairs(_, _, _, _)
fold_pairs(h, pointers, k, xs) ==
  IF k = 0
  THEN [heap |-> h, ret |-> Ok(xs)]
  ELSE LET r == V0_pair(h, pointers[k], xs)
       IN  IF ~r.ret.ok THEN r
           ELSE fold_pairs(r.heap, pointers, k - 1, r.ret.value)

\* parse, the Symbol arm: the value a symbol token stands for.
parse_symbol(h, body) ==
  IF body # <<>> /\ body[1] = "#"
  THEN IF body = <<"#">> THEN V0_unit(h)
       ELSE IF body = <<"#", "t">> THEN V0_t(h)
       ELSE IF body = <<"#", "f">> THEN V0_f(h)
       ELSE [heap |-> h, ret |-> Err("Read")]
  ELSE V0_symbol(h, body)

\* parse of main.rs, the Symbol arm: its literal table has no "#" entry.
main_parse_symbol(h, body) ==
  IF body # <<>> /\ body[1] = "#"
  THEN IF body = <<"#", "t">> THEN Heap_put(h, Bool(TRUE))
       ELSE IF body = <<"#", "f">> THEN Heap_put(h, Bool(FALSE))
       ELSE [heap |-> h, ret |-> Err("Read")]
  ELSE Heap_put(h, Symbol(body))

\* parse whose Rparen arm skips a close-paren that has no open list.
RECURSIVE parse_lenient_from(_, _, _, _, _)
parse_lenient_from(tokens, index, pointers, stack, h) ==
  IF index > Len(tokens)
  THEN [heap |-> h, ret |-> Ok(pointers)]
  ELSE LET token == tokens[index]
       IN  IF token.kind = "Lparen"
           THEN parse_lenient_from(tokens, index + 1, <<>>, Append(stack, pointers), h)
           ELSE IF token.kind = "Rparen"
           THEN IF stack = <<>>
                THEN parse_lenient_from(tokens, index + 1, pointers, stack, h)
                ELSE LET prev == stack[Len(stack)]
                         u == V0_unit(h)
                     IN  IF ~u.ret.ok THEN u
                         ELSE LET r == fold_pairs(u.heap, pointers, Len(pointers),
                                                  u.ret.value)
                              IN  IF ~r.ret.ok THEN r
                                  ELSE parse_lenient_from(tokens, index + 1,
                                         Append(prev, r.ret.value),
                                         SubSeq(stack, 1, Len(stack) - 1), r.heap)
           ELSE IF token.kind = "Space"
           THEN parse_lenient_from(tokens, index + 1, pointers, stack, h)
           ELSE LET r == parse_symbol(h, token.body)
                IN  IF ~r.ret.ok THEN r
                    ELSE parse_lenient_from(tokens, index + 1,
                           Append(pointers, r.ret.value), stack, r.heap)

\* parse, the loop from token `index` on, with the locals pointers and stack.
RECURSIVE parse_from(_, _, _, _, _)
parse_from(tokens, index, pointers, stack, h) ==
  IF index > Len(tokens)
  THEN [heap |-> h, ret |-> Ok(pointers)]
  ELSE LET token == tokens[index]
       IN  IF token.kind = "Lparen"
           THEN parse_from(tokens, index + 1, <<>>, Append(stack, pointers), h)
           ELSE IF token.kind = "Rparen"
           THEN IF stack = <<>>
                THEN [heap |-> h, ret |-> Err("Read")]
                ELSE LET prev == stack[Len(stack)]
                         u == V0_unit(h)
                     IN  IF ~u.ret.ok THEN u
                         ELSE LET r == fold_pairs(u.heap, pointers, Len(pointers),
                                                  u.ret.value)
                              IN  IF ~r.ret.ok THEN r
                                  ELSE parse_from(tokens, index + 1,
                                         Append(prev, r.ret.value),
                                         SubSeq(stack, 1, Len(stack) - 1), r.heap)
           ELSE IF token.kind = "Space"
           THEN parse_from(tokens, index + 1, pointers, stack, h)
           ELSE LET r == parse_symbol(h, token.body)
                IN  IF ~r.ret.ok THEN r
                    ELSE parse_from(tokens, index + 1,
                           Append(pointers, r.ret.value), stack, r.heap)

\* parse that gathers the top-level forms into one list.
parse_wrapped(tokens, h) ==
  parse_from(<<Lparen>> \o tokens \o <<Rparen>>, 1, <<>>, <<>>, h)

parse(tokens, h) == parse_from(tokens, 1, <<>>, <<>>, h)

V0_read(h, text) == parse(tokenize(text), h)

\* parse of main.rs: the loop of parse with the Symbol arm of main.rs.
RECURSIVE main_parse_from(_, _, _, _, _)
main_parse_from(tokens, index, pointers, stack, h) ==
  IF index > Len(tokens)
  THEN [heap |-> h, ret |-> Ok(pointers)]
  ELSE LET token == tokens[index]
       IN  IF token.kind = "Lparen"
           THEN main_parse_from(tokens, index + 1, <<>>, Append(stack, pointers), h)
           ELSE IF token.kind = "Rparen"
           THEN IF stack = <<>>
                THEN [heap |-> h, ret |-> Err("Read")]
                ELSE LET prev == stack[Len(stack)]
                         u == Heap_put(h, Unit)
                     IN  IF ~u.ret.ok THEN u
                         ELSE LET r == fold_pairs(u.heap, pointers, Len(pointers),
                                                  u.ret.value)
                              IN  IF ~r.ret.ok THEN r
                                  ELSE main_parse_from(tokens, index + 1,
                                         Append(prev, r.ret.value),
                                         SubSeq(stack, 1, Len(stack) - 1), r.heap)
           ELSE IF token.kind = "Space"
           THEN main_parse_from(tokens, index + 1, pointers, stack, h)
           ELSE LET r == main_parse_symbol(h, token.body)
                IN  IF ~r.ret.ok THEN r
                    ELSE main_parse_from(tokens, index + 1,
                           Append(pointers, r.ret.value), stack, r.heap)

\* read of main.rs.
main_read(h, text) == main_parse_from(tokenize(text), 1, <<>>, <<>>, h)

(***************************************************************************)
(* The printer.  show(h, pointer, buf, unit_text) is [ret, buf]: the       *)
(* result and the buffer as the call leaves it.                            *)
(***************************************************************************)
guard(flag) == IF flag THEN Ok(<<>>) ELSE Err("Guard")

ProcedureText == <<"<", "p", "r", "o", "c", "e", "d", "u", "r", "e", ">">>

RECURSIVE show(_, _, _, _)
RECURSIVE show_list(_, _, _, _)

\* show, the proper-list arm: `while let Object::Pair(..) = self.heap.get(xs)?`
\* and the guard after it.
show_list(h, xs, buf, unit_text) ==
  LET got == Heap_get(h, xs)
  IN  IF ~got.ok THEN [ret |-> got, buf |-> buf]
      ELSE IF got.value.tag = "Pair"
      THEN LET r == show(h, got.value.fst, buf, unit_text)
           IN  IF ~r.ret.ok THEN r
               ELSE LET next == Heap_get(h, got.value.snd)
                    IN  IF ~next.ok THEN [ret |-> next, buf |-> r.buf]
                        ELSE show_list(h, got.value.snd,
                               IF is_unit(next.value) THEN r.buf
                               ELSE Append(r.buf, " "),
                               unit_text)
      ELSE LET g == guard(is_unit(got.value))
           IN  IF ~g.ok THEN [ret |-> g, buf |-> buf]
               ELSE [ret |-> Ok(<<>>), buf |-> Append(buf, ")")]

show(h, pointer, buf, unit_text) ==
  LET got == Heap_get(h, pointer)
  IN  IF ~got.ok THEN [ret |-> got, buf |-> buf]
      ELSE IF got.value.tag = "Unit"
      THEN [ret |-> Ok(<<>>), buf |-> buf \o unit_text]
      ELSE IF got.value.tag = "Bool"
      THEN [ret |-> Ok(<<>>),
            buf |-> buf \o (IF got.value.value THEN <<"#", "t">> ELSE <<"#", "f">>)]
      ELSE IF got.value.tag = "Symbol"
      THEN [ret |-> Ok(<<>>), buf |-> buf \o got.value.name]
      ELSE IF got.value.tag = "Pair"
      THEN IF ~got.value.is_list
           THEN LET r1 == show(h, got.value.fst, Append(buf, "("), unit_text)
                IN  IF ~r1.ret.ok THEN r1
                    ELSE LET r2 == show(h, got.value.snd,
                                        r1.buf \o <<" ", "*", " ">>, unit_text)
                         IN  IF ~r2.ret.ok THEN r2
                             ELSE [ret |-> Ok(<<>>), buf |-> Append(r2.buf, ")")]
           ELSE show_list(h, pointer, Append(buf, "("), unit_text)
      ELSE [ret |-> Ok(<<>>), buf |-> buf \o ProcedureText]

\* V0::show that spells Unit "()".
V0_show_parens(h, pointer, buf) == show(h, pointer, buf, <<"(", ")">>)

\* V0::show that checks the pointer it is given and no pointer below it.
V0_show_root_only(h, pointer, buf) ==
  LET got == Heap_get(h, pointer)
  IN  IF ~got.ok THEN [ret |-> got, buf |-> buf]
      ELSE [ret |-> Ok(<<>>), buf |-> show(h, pointer, buf, <<"#">>).buf]

\* V0::show (v0.rs) spells Unit "#".
V0_show(h, pointer, buf) == show(h, pointer, buf, <<"#">>)

\* show of main.rs spells Unit "unit".
main_show(h, pointer, buf) == show(h, pointer, buf, <<"u", "n", "i", "t">>)

(***************************************************************************)
(* The heap as a state machine: one action per call a caller can make.     *)
(***************************************************************************)
heap == [nodes |-> nodes, time |-> time]

Names == {<<"a">>}

NoRoots == [roots |-> {}, last_roots |-> {}, allocated |-> FALSE,
            swept |-> FALSE, repeat |-> FALSE, last_count |-> 0]

\* What a call that went through put (r = its result) leaves behind.
Allocated(name, arg, r) ==
  /\ pc = "idle"
  /\ time < MaxTime
  /\ nodes' = r.heap.nodes
  /\ time' = r.heap.time
  /\ op' = [name |-> name, arg |-> arg]
  /\ ret' = r.ret
  /\ pre' = heap
  /\ issued' = IF r.ret.ok THEN issued \cup {r.ret.value} ELSE issued
  /\ gc' = [gc EXCEPT !.allocated = gc.allocated \/ r.ret.ok]
  /\ UNCHANGED <<pc, m_pointer, m_mark, m_seen, reclaimed, count>>
  /\ UNCHANGED readVars

CallUnit == Allocated("unit", <<>>, V0_unit(heap))

CallT == Allocated("t", <<>>, V0_t(heap))

CallF == Allocated("f", <<>>, V0_f(heap))

CallSymbol == \E value \in Names : Allocated("symbol", <<value>>, V0_symbol(heap, value))

CallPair ==
  \E fst \in issued, snd \in issued :
     Allocated("pair", <<fst, snd>>, V0_pair(heap, fst, snd))

\* The pointer put returned last.
Newest == {p \in issued : \A q \in issued : q.timestamp <= p.timestamp}

\* Heap::put of a Proc object (the source has no constructor for them).
Procs ==
  {ProcNat("Eval")}
    \cup {ProcApp(p) : p \in issued}
    \cup {ProcAbs(p, q, q, p) : p \in Newest, q \in issued}

CallPutProc == \E object \in Procs : Allocated("put", <<object>>, Heap_put(heap, object))

CallGet ==
  /\ pc = "idle"
  /\ \E pointer \in issued :
        /\ op' = [name |-> "get", arg |-> <<pointer>>]
        /\ ret' = Heap_get(heap, pointer)
  /\ pre' = heap
  /\ UNCHANGED <<nodes, time, pc, m_pointer, m_mark, m_seen, issued, reclaimed,
                 count, gc>>
  /\ UNCHANGED readVars

CallMark ==
  /\ pc = "idle"
  /\ \E pointer \in issued :
        /\ m_pointer' = pointer
        /\ m_mark' = <<pointer>>
        /\ op' = [name |-> "mark", arg |-> <<pointer>>]
        /\ gc' = [gc EXCEPT !.roots = gc.roots \cup {pointer}]
  /\ m_seen' = {}
  /\ pc' = "mark"
  /\ ret' = Running
  /\ pre' = heap
  /\ UNCHANGED <<nodes, time, issued, reclaimed, count>>
  /\ UNCHANGED readVars

\* Heap::mark whose None arm leaves the loop and reports success.
MarkLoop_none_ok ==
  /\ pc = "mark"
  /\ IF m_mark = <<>> \/ is_none(nodes[m_pointer.index + 1])
     THEN /\ pc' = "idle"
          /\ ret' = Ok(<<>>)
          /\ UNCHANGED <<m_mark, m_seen>>
     ELSE LET r == push_unseen(to_mark_of(nodes[m_pointer.index + 1].object),
                               m_seen, m_mark)
          IN  /\ m_seen' = r.seen
              /\ m_mark' = r.mark
              /\ UNCHANGED <<pc, ret>>
  /\ UNCHANGED <<nodes, time, m_pointer, op, pre, issued, reclaimed, count, gc>>
  /\ UNCHANGED readVars

\* One test of `while !mark.is_empty()` and, when it passes, one run of the body.
MarkLoop ==
  /\ pc = "mark"
  /\ IF m_mark = <<>>
     THEN /\ pc' = "idle"
          /\ ret' = Ok(<<>>)
          /\ UNCHANGED <<m_mark, m_seen>>
     ELSE LET node == nodes[m_pointer.index + 1]
          IN  IF is_none(node)
              THEN /\ pc' = "idle"
                   /\ ret' = Err("Pointer")
                   /\ UNCHANGED <<m_mark, m_seen>>
              ELSE LET r == push_unseen(to_mark_of(node.object), m_seen, m_mark)
                   IN  /\ m_seen' = r.seen
                       /\ m_mark' = r.mark
                       /\ UNCHANGED <<pc, ret>>
  /\ UNCHANGED <<nodes, time, m_pointer, op, pre, issued, reclaimed, count, gc>>
  /\ UNCHANGED readVars

CallSweep ==
  /\ pc = "idle"
  /\ time < MaxTime
  /\ LET r == Heap_sweep(heap)
     IN  /\ nodes' = r.heap.nodes
         /\ time' = r.heap.time
         /\ count' = r.count
         /\ reclaimed' = reclaimed \cup
              {p \in issued : /\ is_some(nodes[p.index + 1])
                              /\ nodes[p.index + 1].timestamp = p.timestamp
                              /\ is_none(r.heap.nodes[p.index + 1])}
  /\ op' = [name |-> "sweep", arg |-> <<>>]
  /\ ret' = Ok(<<>>)
  /\ pre' = heap
  /\ gc' = [roots |-> {}, last_roots |-> gc.roots, allocated |-> FALSE,
            swept |-> TRUE,
            repeat |-> gc.swept /\ ~gc.allocated /\ gc.roots = gc.last_roots,
            last_count |-> count]
  /\ UNCHANGED <<pc, m_pointer, m_mark, m_seen, issued>>
  /\ UNCHANGED readVars

InitWith(capacities) ==
  /\ capacity \in capacities
  /\ nodes = Heap_with_capacity(capacity).nodes
  /\ time = Heap_with_capacity(capacity).time
  /\ pc = "idle"
  /\ m_pointer = Gc(0, 0)
  /\ m_mark = <<>>
  /\ m_seen = {}
  /\ op = [name |-> "with_capacity", arg |-> <<capacity>>]
  /\ ret = Ok(<<>>)
  /\ pre = Heap_with_capacity(capacity)
  /\ issued = {}
  /\ reclaimed = {}
  /\ count = 0
  /\ gc = NoRoots
  /\ src = <<>>
  /\ phase = "typing"
  /\ out = <<>>

Init == InitWith(1..Capacity)

Next ==
  \/ CallUnit
  \/ CallT
  \/ CallF
  \/ CallSymbol
  \/ CallPair
  \/ CallPutProc
  \/ CallGet
  \/ CallMark
  \/ MarkLoop
  \/ CallSweep

Spec == Init /\ [][Next]_vars

\* The one thread of control always takes its next step.
FairSpec == Init /\ [][Next]_vars /\ WF_vars(Next)

\* The constructors alone, on a heap that is never collected.
ConsInit == InitWith({ConsCapacity})

ConsNext ==
  \/ CallUnit
  \/ CallT
  \/ CallF
  \/ CallSymbol
  \/ CallPair
  \/ CallPutProc

ConsSpec == ConsInit /\ [][ConsNext]_vars

(***************************************************************************)
(* The reader and the printer as a state machine: a source text is typed,  *)
(* read into a fresh heap, and each value read is shown.                   *)
(***************************************************************************)
Alphabet == {"(", ")", " ", "a", "#", "t", "f"}

ReadInit == InitWith({1, ReadCapacity})

TypeRune ==
  /\ phase = "typing"
  /\ Len(src) < MaxSrcLen
  /\ \E rune \in Alphabet : src' = Append(src, rune)
  /\ UNCHANGED <<phase, out>>
  /\ UNCHANGED heapVars

\* The pointers to the objects now in the heap.
Live(h) ==
  {Gc(i - 1, h.nodes[i].timestamp) : i \in {j \in 1..Len(h.nodes) : ~is_none(h.nodes[j])}}

CallRead ==
  /\ phase = "typing"
  /\ LET r == V0_read(heap, src)
     IN  /\ nodes' = r.heap.nodes
         /\ time' = r.heap.time
         /\ ret' = r.ret
         /\ issued' = issued \cup Live(r.heap)
  /\ op' = [name |-> "read", arg |-> <<src>>]
  /\ pre' = heap
  /\ phase' = "read"
  /\ UNCHANGED <<capacity, pc, m_pointer, m_mark, m_seen, reclaimed, count, gc,
                 src, out>>

\* The driver's loop over the values read: show of each into a cleared buffer.
CallShow ==
  /\ phase = "read"
  /\ ret.ok
  /\ out' = [k \in 1..Len(ret.value) |-> V0_show(heap, ret.value[k], <<>>)]
  /\ phase' = "shown"
  /\ UNCHANGED src
  /\ UNCHANGED heapVars

ReadNext ==
  \/ TypeRune
  \/ CallRead
  \/ CallShow

ReadSpec == ReadInit /\ [][ReadNext]_vars

(***************************************************************************)
(* The printer over a collected heap: values are built, the heap is swept, *)
(* and any pointer handed out so far is shown into a cleared buffer.       *)
(***************************************************************************)
CallShowOf ==
  /\ pc = "idle"
  /\ \E pointer \in issued :
        /\ op' = [name |-> "show", arg |-> <<pointer>>]
        /\ ret' = V0_show(heap, pointer, <<>>).ret
        /\ out' = <<V0_show(heap, pointer, <<>>)>>
  /\ pre' = heap
  /\ UNCHANGED <<capacity, nodes, time, pc, m_pointer, m_mark, m_seen, issued,
                 reclaimed, count, gc, src, phase>>

ShowInit == InitWith({Capacity})

ShowNext ==
  \/ CallUnit
  \/ CallSymbol
  \/ CallPair
  \/ CallPutProc
  \/ CallSweep
  \/ CallShowOf

ShowSpec == ShowInit /\ [][ShowNext]_vars

(***************************************************************************)
(* The evaluator as a state machine: values are built and any of them is   *)
(* evaluated in any of them as environment.                                *)
(***************************************************************************)
CallEval ==
  /\ pc = "idle"
  /\ \E value \in issued, env \in issued :
        LET r == V0_eval(heap, value, env)
        IN  /\ op' = [name |-> "eval", arg |-> <<value, env>>]
            /\ ret' = r.ret
            /\ nodes' = r.heap.nodes
            /\ time' = r.heap.time
  /\ pre' = heap
  /\ UNCHANGED <<pc, m_pointer, m_mark, m_seen, issued, reclaimed, count, gc>>
  /\ UNCHANGED readVars

EvalInit == InitWith({Capacity})

EvalNext ==
  \/ CallUnit
  \/ CallT
  \/ CallF
  \/ CallSymbol
  \/ CallPair
  \/ CallEval

EvalSpec == EvalInit /\ [][EvalNext]_vars

(***************************************************************************)
(* Heap::sweep on the heaps the Node type allows: every slot is None, Some *)
(* or Mark.  Slot i carries the stamp i - 1 of a heap filled in order, and *)
(* the counter stands past them.                                           *)
(***************************************************************************)
SweepObjects == {Unit, Symbol(<<"a">>)}

NodesAt(i) ==
  {None} \cup {Some(object, i - 1) : object \in SweepObjects}
         \cup {Mark(object, i - 1) : object \in SweepObjects}

SweepInit ==
  /\ capacity = SweepCapacity
  /\ nodes \in {slots \in [1..SweepCapacity -> UNION {NodesAt(i) : i \in 1..SweepCapacity}] :
                  \A i \in 1..SweepCapacity : slots[i] \in NodesAt(i)}
  /\ time = SweepCapacity
  /\ pc = "idle"
  /\ m_pointer = Gc(0, 0)
  /\ m_mark = <<>>
  /\ m_seen = {}
  /\ op = [name |-> "with_capacity", arg |-> <<capacity>>]
  /\ ret = Ok(<<>>)
  /\ pre = heap
  /\ issued = Live(heap)
  /\ reclaimed = {}
  /\ count = 0
  /\ gc = NoRoots
  /\ src = <<>>
  /\ phase = "typing"
  /\ out = <<>>

SweepNext == CallSweep

SweepSpec == SweepInit /\ [][SweepNext]_vars

(***************************************************************************)
(* The collector alone: values are built, roots are marked, the heap is    *)
(* swept.  The one thread of control always takes its next step.           *)
(***************************************************************************)
MarkInit == InitWith(1..Capacity)

MarkNext ==
  \/ CallUnit
  \/ CallPair
  \/ CallMark
  \/ MarkLoop
  \/ CallSweep

MarkSpec == MarkInit /\ [][MarkNext]_vars /\ WF_vars(MarkNext)

(***************************************************************************)
(* The driver, main of main.rs: a loop that prompts, reads a line, reads   *)
(* the values of the line into the heap and prints each.  The heap is      *)
(* never collected.  `out` is what has been printed, one entry per value,  *)
(* and uid is the number of entries.  Each `.unwrap()` panics on an Err,   *)
(* and a panic ends the process.                                           *)
(***************************************************************************)
DriverLines ==
  {<<"a">>, <<"(", ")">>, <<"(", "a", ")">>, <<")">>, <<"#">>, <<"#", "a">>, <<>>}

\* `for pointer in xs.iter()`, from the k-th value on: the entries printed, or
\* the error the unwrap of show panics on.
RECURSIVE show_each(_, _, _, _)
show_each(h, xs, k, printed) ==
  IF k > Len(xs)
  THEN [ret |-> Ok(<<>>), printed |-> printed]
  ELSE LET r == main_show(h, xs[k], <<>>)
       IN  IF ~r.ret.ok
           THEN [ret |-> r.ret, printed |-> printed]
           ELSE show_each(h, xs, k + 1,
                          Append(printed, [uid |-> Len(printed), text |-> r.buf]))

\* print!, flush and read_line: the line typed, with its newline.
DriverReadLine ==
  /\ phase = "typing"
  /\ \E line \in DriverLines : src' = Append(line, "\n")
  /\ phase' = "line"
  /\ UNCHANGED out
  /\ UNCHANGED heapVars

\* `let xs = read(&source_buffer, &mut heap).unwrap();`
DriverRead ==
  /\ phase = "line"
  /\ LET r == main_read(heap, src)
     IN  /\ nodes' = r.heap.nodes
         /\ time' = r.heap.time
         /\ ret' = r.ret
         /\ issued' = issued \cup Live(r.heap)
         /\ phase' = IF r.ret.ok THEN "read" ELSE "panicked"
  /\ op' = [name |-> "read", arg |-> <<src>>]
  /\ pre' = heap
  /\ UNCHANGED <<capacity, pc, m_pointer, m_mark, m_seen, reclaimed, count, gc,
                 src, out>>

\* The for loop over xs, then back to the top of `loop`.
DriverShow ==
  /\ phase = "read"
  /\ LET r == show_each(heap, ret.value, 1, out)
     IN  /\ out' = r.printed
         /\ phase' = IF r.ret.ok THEN "typing" ELSE "panicked"
  /\ UNCHANGED src
  /\ UNCHANGED heapVars

DriverInit == InitWith({DriverCapacity})

DriverNext ==
  \/ DriverReadLine
  \/ DriverRead
  \/ DriverShow

\* A process that has not ended takes its next step.
DriverSpec == DriverInit /\ [][DriverNext]_vars /\ WF_vars(DriverNext)

(***************************************************************************)
(* Vocabulary of the properties.                                           *)
(***************************************************************************)
Valid(h, p) == Heap_get(h, p).ok

\* The pointers embedded in the object p points to (none when p is invalid).
Refs(h, p) ==
  IF Valid(h, p)
  THEN LET refs == to_mark_of(Heap_get(h, p).value)
       IN  {refs[k] : k \in 1..Len(refs)}
  ELSE {}

\* The valid pointers reachable from the valid pointers of `found`.
RECURSIVE ReachFrom(_, _)
ReachFrom(h, found) ==
  LET more == {q \in UNION {Refs(h, p) : p \in found} : Valid(h, q)} \ found
  IN  IF more = {} THEN found ELSE ReachFrom(h, found \cup more)

Reach(h, roots) == ReachFrom(h, {r \in roots : Valid(h, r)})

ReachSlots(h, roots) == {p.index + 1 : p \in Reach(h, roots)}

Occupied(h) == {i \in 1..Len(h.nodes) : is_some(h.nodes[i])}

\* Following snd from p passes only through Pair objects and ends at a Unit.
RECURSIVE EndsInUnit(_, _)
EndsInUnit(h, p) ==
  LET got == Heap_get(h, p)
  IN  /\ got.ok
      /\ \/ got.value.tag = "Unit"
         \/ got.value.tag = "Pair" /\ EndsInUnit(h, got.value.snd)

\* The calls that are one put and nothing else.
PutCalls == {"unit", "t", "f", "symbol", "put"}

Returned(name) == pc = "idle" /\ op.name = name

(***************************************************************************)
(* C1: a pointer put returned, whose slot a later sweep reset to None,     *)
(* fails every get from then on with a Pointer error, also after the slot  *)
(* has been allocated again.                                               *)
(***************************************************************************)
C1_StalePointerFails ==
  /\ \A p \in reclaimed : Heap_get(heap, p) = Err("Pointer")
  /\ Returned("get") /\ op.arg[1] \in reclaimed => ret = Err("Pointer")

C1_Witness ==
  /\ Returned("get")
  /\ op.arg[1] \in reclaimed
  /\ is_some(nodes[op.arg[1].index + 1])
  /\ ret = Err("Pointer")

(***************************************************************************)
(* C2: a collection rooted at a valid pointer r runs to its end: mark(r)   *)
(* returns Ok; and once sweep has followed, every pointer that was         *)
(* reachable from r before the sweep still dereferences to the object it   *)
(* had, its slot still Some.                                               *)
(***************************************************************************)
C2_Survivors ==
  Returned("sweep") =>
    \A p \in Reach(pre, gc.last_roots) :
       /\ is_some(nodes[p.index + 1])
       /\ Heap_get(heap, p) = Heap_get(pre, p)

C2_ReachableSurvive ==
  /\ (pc = "mark" /\ Valid(heap, m_pointer)) ~> (Returned("mark") /\ ret = Ok(<<>>))
  /\ []C2_Survivors

(***************************************************************************)
(* C3: after the marks of a root set R and the sweep that follows, no slot *)
(* that was unreachable from R is Some: every such slot is None.           *)
(***************************************************************************)
C3_UnreachableReclaimed ==
  Returned("sweep") =>
    \A i \in 1..Len(nodes) :
       i \notin ReachSlots(pre, gc.last_roots) => is_none(nodes[i])

C3_Witness ==
  /\ Returned("sweep")
  /\ gc.last_roots # {}
  /\ \E i \in Occupied(pre) : i \notin ReachSlots(pre, gc.last_roots)

(***************************************************************************)
(* C4: on a heap built by the constructors, the is_list flag of every pair *)
(* is true exactly when following snd from the pair passes only through    *)
(* Pair objects and ends at a Unit.                                        *)
(***************************************************************************)
C4_ListFlag ==
  \A i \in 1..Len(nodes) :
     is_some(nodes[i]) /\ nodes[i].object.tag = "Pair" =>
       (nodes[i].object.is_list <=> EndsInUnit(heap, nodes[i].object.snd))

C4_Witness ==
  /\ op.name = "pair"
  /\ ret.ok
  /\ LET built == Heap_get(heap, ret.value).value
         rest == Heap_get(heap, built.snd).value
     IN  /\ rest.tag = "Pair"
         /\ built.is_list
         /\ Heap_get(heap, rest.snd).value.tag = "Unit"

(***************************************************************************)
(* C5: get of a pointer (i, s) fails, with a Pointer error, exactly when   *)
(* slot i is None or carries a stamp other than s; otherwise it returns    *)
(* the object stored in slot i.                                            *)
(***************************************************************************)
C5_GetContract ==
  Returned("get") =>
    LET pointer == op.arg[1]
        node == nodes[pointer.index + 1]
        bad == is_none(node) \/ node.timestamp # pointer.timestamp
    IN  /\ ~ret.ok <=> bad
        /\ ~ret.ok => ret = Err("Pointer")
        /\ ret.ok => ret = Ok(node.object)

C5_Witness ==
  /\ Returned("get")
  /\ is_some(nodes[op.arg[1].index + 1])
  /\ nodes[op.arg[1].index + 1].timestamp # op.arg[1].timestamp
  /\ ~ret.ok

(***************************************************************************)
(* C6: put fails, with Error::Space, exactly when no slot is None; a put   *)
(* that fails leaves the slots and the stamp counter as they were; and the *)
(* number of slots is the construction capacity in every state.            *)
(***************************************************************************)
C6_SpaceContract ==
  /\ Len(nodes) = capacity
  /\ pc = "idle" /\ op.name \in PutCalls =>
       /\ ~ret.ok <=> \A i \in 1..Len(pre.nodes) : ~is_none(pre.nodes[i])
       /\ ~ret.ok => ret = Err("Space") /\ heap = pre

C6_Witness ==
  /\ capacity = 1
  /\ op.name \in PutCalls
  /\ ret = Err("Space")
  /\ time = 1
  /\ nodes[1].timestamp = 0

(***************************************************************************)
(* C7: a collection that follows a collection with the same root set, no   *)
(* allocation in between, reclaims nothing: its sweep counts zero slots    *)
(* and leaves the set of Some slots as it was.                             *)
(***************************************************************************)
C7_SecondCollectReclaimsNothing ==
  Returned("sweep") /\ gc.repeat =>
    /\ count = 0
    /\ Occupied(heap) = Occupied(pre)

C7_Witness ==
  /\ Returned("sweep")
  /\ gc.repeat
  /\ gc.last_count > 0
  /\ count = 0

(***************************************************************************)
(* Vocabulary of the reader's properties.                                  *)
(***************************************************************************)
\* Open-parens minus close-parens among the first n tokens.
Depth(tokens, n) ==
  Cardinality({i \in 1..n : tokens[i].kind = "Lparen"})
    - Cardinality({i \in 1..n : tokens[i].kind = "Rparen"})

\* The positions of the close-parens that close nothing.
Underflows(tokens) == {k \in 1..Len(tokens) : Depth(tokens, k) < 0}

Malformed(tokens) == Underflows(tokens) # {} \/ Depth(tokens, Len(tokens)) > 0

\* The first close-paren met with no list pending, 0 when there is none.
FirstUnderflow(tokens) ==
  IF Underflows(tokens) = {} THEN 0
  ELSE CHOOSE k \in Underflows(tokens) : \A j \in Underflows(tokens) : k <= j

\* The parser, started on heap h, gets as far as a close-paren with no list
\* pending: the tokens before it are parsed without error.
MeetsUnmatchedClose(h, tokens) ==
  /\ FirstUnderflow(tokens) > 0
  /\ parse(SubSeq(tokens, 1, FirstUnderflow(tokens) - 1), h).ret.ok

NoSpaces(tokens) == SelectSeq(tokens, LAMBDA token : token.kind # "Space")

RECURSIVE Join(_)
Join(texts) ==
  IF Len(texts) = 1 THEN texts[1]
  ELSE texts[1] \o <<" ">> \o Join(Tail(texts))

\* The text a well-formed source stands for, form by form: an atom is its own
\* spelling, an empty list is unit_text, another list is its elements between
\* parentheses, one space apart.
RECURSIVE FormText(_, _, _)
RECURSIVE ItemTexts(_, _, _, _)
FormText(tokens, i, unit_text) ==
  IF tokens[i].kind = "Symbol"
  THEN [text |-> IF tokens[i].body = <<"#">> THEN unit_text ELSE tokens[i].body,
        next |-> i + 1]
  ELSE LET r == ItemTexts(tokens, i + 1, <<>>, unit_text)
       IN  [text |-> IF r.texts = <<>> THEN unit_text
                     ELSE <<"(">> \o Join(r.texts) \o <<")">>,
            next |-> r.next]

ItemTexts(tokens, i, texts, unit_text) ==
  IF tokens[i].kind = "Rparen"
  THEN [texts |-> texts, next |-> i + 1]
  ELSE LET f == FormText(tokens, i, unit_text)
       IN  ItemTexts(tokens, f.next, Append(texts, f.text), unit_text)

RECURSIVE TopTexts(_, _, _, _)
TopTexts(tokens, i, texts, unit_text) ==
  IF i > Len(tokens) THEN texts
  ELSE LET f == FormText(tokens, i, unit_text)
       IN  TopTexts(tokens, f.next, Append(texts, f.text), unit_text)

Rendering(text, unit_text) == TopTexts(NoSpaces(tokenize(text)), 1, <<>>, unit_text)

HasRune(text, rune) == \E i \in 1..Len(text) : text[i] = rune

(***************************************************************************)
(* C8: read fails with a Read error on every source whose parentheses are  *)
(* malformed, a source with an open-paren left unclosed included.          *)
(***************************************************************************)
C8_MalformedIsReadError ==
  phase # "typing" /\ Malformed(tokenize(src)) => ret = Err("Read")

(***************************************************************************)
(* C9: when the parser meets a close-paren with no list pending, read      *)
(* returns a Read error and no value, however many top-level values were   *)
(* parsed before that token; nothing is shown.                             *)
(***************************************************************************)
C9_UnmatchedCloseIsReadError ==
  phase # "typing" /\ MeetsUnmatchedClose(pre, tokenize(src)) =>
    /\ ret = Err("Read")
    /\ phase = "read"
    /\ out = <<>>

C9_Witness ==
  /\ phase = "read"
  /\ MeetsUnmatchedClose(pre, tokenize(src))
  /\ LET tokens == tokenize(src)
     IN  Len(parse(SubSeq(tokens, 1, FirstUnderflow(tokens) - 1), pre).ret.value) > 0
  /\ time > 0
  /\ ret = Err("Read")

(***************************************************************************)
(* C10 as stated: reading "()" yields exactly one value and show renders   *)
(* it "()".                                                                *)
(***************************************************************************)
C10_EmptyListShownAsParens ==
  phase = "shown" /\ src = <<"(", ")">> =>
    /\ Len(ret.value) = 1
    /\ out[1] = [ret |-> Ok(<<>>), buf |-> <<"(", ")">>]

(***************************************************************************)
(* C10 amended: reading "()" yields exactly one value, a Unit, and show    *)
(* renders it "#" (V0::show; "unit" with the show of main.rs); an empty    *)
(* list read from source is rendered so wherever it occurs.                *)
(***************************************************************************)
C10_EmptyListShownAsUnit ==
  /\ phase = "shown" /\ src = <<"(", ")">> =>
       /\ Len(ret.value) = 1
       /\ Heap_get(heap, ret.value[1]) = Ok(Unit)
       /\ out[1] = [ret |-> Ok(<<>>), buf |-> <<"#">>]
       /\ main_show(heap, ret.value[1], <<>>) =
            [ret |-> Ok(<<>>), buf |-> <<"u", "n", "i", "t">>]
  /\ phase = "shown" /\ ~Malformed(tokenize(src)) =>
       /\ Len(out) = Len(Rendering(src, <<"#">>))
       /\ \A k \in 1..Len(out) :
            /\ out[k] = [ret |-> Ok(<<>>), buf |-> Rendering(src, <<"#">>)[k]]
            /\ ~HasRune(src, "#") =>
                 main_show(heap, ret.value[k], <<>>) =
                   [ret |-> Ok(<<>>), buf |-> Rendering(src, <<"u", "n", "i", "t">>)[k]]

C10_Witness ==
  /\ phase = "shown"
  /\ src = <<"(", "(", ")", ")">>
  /\ out = <<[ret |-> Ok(<<>>), buf |-> <<"(", "#", ")">>]>>

(***************************************************************************)
(* Vocabulary of C11 to C13: sources seen as text.                          *)
(***************************************************************************)
\* The positions of text where an atom starts.
AtomStarts(text) ==
  {i \in 1..Len(text) : /\ ~IsDelimiter(text[i])
                         /\ (i = 1 \/ IsDelimiter(text[i - 1]))}

\* The atom of text that starts at position i.
RECURSIVE AtomAt(_, _)
AtomAt(text, i) ==
  IF i > Len(text) \/ IsDelimiter(text[i]) THEN <<>>
  ELSE <<text[i]>> \o AtomAt(text, i + 1)

IsLiteralAtom(atom) == atom \in {<<"#", "t">>, <<"#", "f">>}

IsPlainSymbol(atom) == atom # <<>> /\ atom[1] # "#"

\* A single non-empty parenthesized list of atoms (plain symbols, #t, #f)
\* separated by single spaces.
IsAtomList(text) ==
  /\ Len(text) >= 3
  /\ text[1] = "("
  /\ text[Len(text)] = ")"
  /\ \A i \in 2..(Len(text) - 1) : text[i] \notin {"(", ")"}
  /\ ~IsSpace(text[2])
  /\ ~IsSpace(text[Len(text) - 1])
  /\ \A i \in 2..(Len(text) - 2) : ~(IsSpace(text[i]) /\ IsSpace(text[i + 1]))
  /\ \A i \in AtomStarts(text) :
        IsPlainSymbol(AtomAt(text, i)) \/ IsLiteralAtom(AtomAt(text, i))

\* The slots reading an atom list takes: one per atom, one pair per atom, and
\* the Unit that ends the list.
SlotsNeeded(text) == 2 * Cardinality(AtomStarts(text)) + 1

(***************************************************************************)
(* C11: for every source that is a single non-empty parenthesized list of  *)
(* atoms (plain symbols, #t, #f) separated by single spaces, read on a     *)
(* heap with enough free slots returns one value, and show of that value   *)
(* reproduces the source exactly.                                          *)
(***************************************************************************)
\* Two lists of three atoms, longer than the sources typed rune by rune; they
\* are read into a fresh heap of just the slots they need.
ThreeAtomLists ==
  {<<"(", "a", " ", "t", " ", "f", ")">>,
   <<"(", "#", "t", " ", "#", "f", " ", "a", "f", ")">>}

C11_RoundTrip ==
  /\ IsAtomList(src) =>
       /\ phase = "read" /\ SlotsNeeded(src) <= capacity =>
            ret.ok /\ Len(ret.value) = 1
       /\ phase = "shown" => out = <<[ret |-> Ok(<<>>), buf |-> src]>>
  /\ src = <<>> /\ phase = "typing" =>
       \A text \in ThreeAtomLists :
          LET r == V0_read(Heap_with_capacity(SlotsNeeded(text)), text)
          IN  /\ IsAtomList(text)
              /\ r.ret.ok
              /\ Len(r.ret.value) = 1
              /\ V0_show(r.heap, r.ret.value[1], <<>>) =
                   [ret |-> Ok(<<>>), buf |-> text]

C11_Witness ==
  /\ phase = "shown"
  /\ src = <<"(", "#", "t", " ", "a", ")">> \/ src = <<"(", "a", " ", "t", ")">>
  /\ out[1].buf = src

\* The positions where a form starts, and those of the top-level forms.
FormStarts(tokens) == {i \in 1..Len(tokens) : tokens[i].kind \in {"Symbol", "Lparen"}}

TopForms(tokens) == {i \in FormStarts(tokens) : Depth(tokens, i - 1) = 0}

\* A '#' spelling outside the literal table.
UnknownLiteral(body) ==
  /\ body[1] = "#"
  /\ body \notin {<<"#">>, <<"#", "t">>, <<"#", "f">>}

HasUnknownLiteral(tokens) ==
  \E i \in 1..Len(tokens) : tokens[i].kind = "Symbol" /\ UnknownLiteral(tokens[i].body)

\* The slots reading a balanced source takes: one per atom, one Unit per list
\* and one Pair per element of a list.
SlotsFor(tokens) ==
  Cardinality({i \in 1..Len(tokens) : tokens[i].kind \in {"Symbol", "Rparen"}})
    + Cardinality(FormStarts(tokens) \ TopForms(tokens))

(***************************************************************************)
(* C12: on a source with balanced parentheses (and no unknown '#'          *)
(* literal), read succeeds exactly when the heap has the slots the source  *)
(* takes, and then returns one value per top-level form, in source order:  *)
(* the k-th value is the k-th form alone, never a list gathering several   *)
(* forms; whitespace adds no value.                                        *)
(***************************************************************************)
C12_OneValuePerForm ==
  LET tokens == tokenize(src)
  IN  phase # "typing" /\ ~Malformed(tokens) /\ ~HasUnknownLiteral(tokens) =>
        /\ ret.ok <=> SlotsFor(tokens) <= capacity
        /\ ~ret.ok => ret = Err("Space")
        /\ ret.ok =>
             /\ Len(ret.value) = Cardinality(TopForms(tokens))
             /\ Len(ret.value) = Len(Rendering(src, <<"#">>))
             /\ \A k \in 1..Len(ret.value) :
                   V0_show(heap, ret.value[k], <<>>) =
                     [ret |-> Ok(<<>>), buf |-> Rendering(src, <<"#">>)[k]]

C12_Witness ==
  /\ phase = "read"
  /\ src = <<"a", " ", "(", "t", ")">>
  /\ ret.ok
  /\ Len(ret.value) = 2
  /\ Heap_get(heap, ret.value[1]) = Ok(Symbol(<<"a">>))
  /\ Heap_get(heap, ret.value[2]).value.tag = "Pair"

\* A source that is one symbol token and nothing else.
IsAtom(text) == text # <<>> /\ \A i \in 1..Len(text) : ~IsDelimiter(text[i])

\* r = [heap, ret] is what the literal table prescribes for the atom `body`
\* read into a heap with a free slot.
FollowsTable(body, r) ==
  IF body = <<"#">> THEN r.ret.ok /\ Heap_get(r.heap, r.ret.value) = Ok(Unit)
  ELSE IF body = <<"#", "t">>
  THEN r.ret.ok /\ Heap_get(r.heap, r.ret.value) = Ok(Bool(TRUE))
  ELSE IF body = <<"#", "f">>
  THEN r.ret.ok /\ Heap_get(r.heap, r.ret.value) = Ok(Bool(FALSE))
  ELSE IF body[1] = "#" THEN r.ret = Err("Read")
  ELSE r.ret.ok /\ Heap_get(r.heap, r.ret.value) = Ok(Symbol(body))

\* The reader of v0.rs follows the table: on a source that is one atom, and
\* an unknown '#' spelling anywhere in a source makes read fail.
V0FollowsTable ==
  /\ phase = "read" /\ IsAtom(src) =>
       /\ ret.ok => Len(ret.value) = 1
       /\ FollowsTable(src, [heap |-> heap,
                             ret |-> IF ret.ok THEN Ok(ret.value[1]) ELSE ret])
  /\ phase # "typing" /\ HasUnknownLiteral(tokenize(src)) =>
       ret \in {Err("Read"), Err("Space")}

(***************************************************************************)
(* C13: a symbol token that begins with '#' reads as Unit for "#", as      *)
(* Bool(true) for "#t", as Bool(false) for "#f", and is a Read error for   *)
(* every other spelling; a token that does not begin with '#' allocates a  *)
(* Symbol of that exact name.  This for the reader of v0.rs and for the    *)
(* reader of main.rs.                                                      *)
(***************************************************************************)
C13_LiteralTable ==
  /\ V0FollowsTable
  /\ phase = "read" /\ IsAtom(src) => FollowsTable(src, main_parse_symbol(pre, src))

(***************************************************************************)
(* Vocabulary of C14: the pointer graph of a value.                        *)
(***************************************************************************)
\* The pointers met from `found` through the sub-references of every kind of
\* object (Pair, Reapply, Closure), the invalid ones included.
RECURSIVE Graph(_, _)
Graph(h, found) ==
  LET more == UNION {Refs(h, p) : p \in found} \ found
  IN  IF more = {} THEN found ELSE Graph(h, found \cup more)

\* The fst and snd of the Pair that p points to (none otherwise).
PairRefs(h, p) ==
  IF Valid(h, p) /\ Heap_get(h, p).value.tag = "Pair"
  THEN {Heap_get(h, p).value.fst, Heap_get(h, p).value.snd}
  ELSE {}

\* The pointers met from `found` through Pair objects only.
RECURSIVE PairGraph(_, _)
PairGraph(h, found) ==
  LET more == UNION {PairRefs(h, p) : p \in found} \ found
  IN  IF more = {} THEN found ELSE PairGraph(h, found \cup more)

HasInvalid(h, pointers) == \E q \in pointers : ~Valid(h, q)

(***************************************************************************)
(* C14 as stated: show(value) returns an error whenever value itself or    *)
(* any pointer embedded in an object reachable from value is invalid (its  *)
(* slot is None or carries another stamp).                                 *)
(***************************************************************************)
C14_ShowFailsOnInvalidGraph ==
  Returned("show") /\ HasInvalid(heap, Graph(heap, {op.arg[1]})) => ~ret.ok

(***************************************************************************)
(* C14 amended: show(value) returns an error, Error::Pointer, exactly when *)
(* value itself or a pointer reached from it through the fst and snd of    *)
(* Pair objects is invalid; the pointers inside a procedure are not looked *)
(* at: a procedure is shown as "<procedure>" whatever they refer to.       *)
(***************************************************************************)
C14_ShowFailsOnInvalidPairGraph ==
  Returned("show") =>
    LET value == op.arg[1]
    IN  /\ ~ret.ok <=> HasInvalid(heap, PairGraph(heap, {value}))
        /\ ~ret.ok => ret = Err("Pointer")
        /\ out[1].ret = ret
        /\ Valid(heap, value) /\ Heap_get(heap, value).value.tag = "Proc" =>
             out = <<[ret |-> Ok(<<>>), buf |-> ProcedureText]>>

\* A pair built on a stale fst: show meets the stale pointer and fails.
C14_Witness ==
  /\ Returned("show")
  /\ Valid(heap, op.arg[1])
  /\ Heap_get(heap, op.arg[1]).value.tag = "Pair"
  /\ ~Valid(heap, Heap_get(heap, op.arg[1]).value.fst)
  /\ Valid(heap, Heap_get(heap, op.arg[1]).value.snd)
  /\ ret = Err("Pointer")

\* A procedure that holds a stale pointer, shown without error.
C14_StaleInProcedure ==
  /\ Returned("show")
  /\ Valid(heap, op.arg[1])
  /\ Heap_get(heap, op.arg[1]).value.tag = "Proc"
  /\ HasInvalid(heap, Graph(heap, {op.arg[1]}))
  /\ ret.ok

(***************************************************************************)
(* C15: eval of a pointer to a Unit or Bool object, in any environment,    *)
(* resumes the continuation at once with that pointer, so that V0::eval    *)
(* returns Ok with the literal itself.                                     *)
(***************************************************************************)
C15_LiteralEvaluatesToItself ==
  /\ Returned("eval")
  /\ Valid(heap, op.arg[1])
  /\ Heap_get(heap, op.arg[1]).value.tag \in {"Unit", "Bool"}
  => ret = Ok(op.arg[1])

\* What eval does return in the model: Error::Stub, on every value.
EvalIsStub == Returned("eval") => ret = Err("Stub") /\ heap = pre

(***************************************************************************)
(* C16: mark(root) terminates on every heap state and every shape of the   *)
(* reference graph under the root: a mark that has been entered always     *)
(* comes to the end of its loop and returns.                               *)
(***************************************************************************)
C16_MarkTerminates == (pc = "mark") ~> (pc = "idle")

\* What the loop does in the model: it returns only by the None arm, and a
\* root whose slot is not None keeps it running with a worklist never empty.
MarkReturnsOnlyOnNone ==
  /\ pc = "mark" => m_mark # <<>> /\ m_mark[1] = m_pointer
  /\ Returned("mark") => ret = Err("Pointer") /\ is_none(nodes[op.arg[1].index + 1])

(***************************************************************************)
(* C17: mark(root) on a valid root completes with every slot it reached    *)
(* (the root's and those under it through Pair, Reapply and Closure        *)
(* sub-references) Marked, object and stamp as they were, and every other  *)
(* slot unchanged.                                                         *)
(***************************************************************************)
MarkedAsDesigned ==
  \A i \in 1..Len(nodes) :
     IF i \in ReachSlots(pre, {op.arg[1]})
     THEN nodes[i] = Mark(pre.nodes[i].object, pre.nodes[i].timestamp)
     ELSE nodes[i] = pre.nodes[i]

C17_MarkMarksReached ==
  (pc = "mark" /\ Valid(heap, m_pointer))
    ~> (Returned("mark") /\ ret = Ok(<<>>) /\ MarkedAsDesigned)

\* What mark does to the slots in the model: nothing, and no slot is ever
\* Marked.
MarkWritesNoSlot ==
  /\ \A i \in 1..Len(nodes) : ~is_mark(nodes[i])
  /\ op.name = "mark" => heap = pre

(***************************************************************************)
(* C18: sweep transforms every slot on its own: a Mark(object, stamp) slot *)
(* becomes Some(object, stamp), a Some slot becomes None, a None slot      *)
(* stays None; the count it reports is the number of slots that were Some  *)
(* just before the sweep.                                                  *)
(***************************************************************************)
C18_SweepTransform ==
  Returned("sweep") =>
    /\ Len(nodes) = Len(pre.nodes)
    /\ \A i \in 1..Len(pre.nodes) :
          /\ is_mark(pre.nodes[i]) =>
               nodes[i] = Some(pre.nodes[i].object, pre.nodes[i].timestamp)
          /\ is_some(pre.nodes[i]) => is_none(nodes[i])
          /\ is_none(pre.nodes[i]) => is_none(nodes[i])
    /\ count = Cardinality(Occupied(pre))

C18_Witness ==
  /\ Returned("sweep")
  /\ is_mark(pre.nodes[1]) /\ nodes[1] = Some(Symbol(<<"a">>), 0)
  /\ is_some(pre.nodes[2]) /\ is_none(nodes[2])
  /\ is_none(pre.nodes[3]) /\ is_none(nodes[3])
  /\ count = 1

(***************************************************************************)
(* C19: a put that succeeds installs the object in the None slot of lowest *)
(* index, stamped with the counter as it stood, returns the pointer of     *)
(* that index and that stamp, adds exactly one to the counter and leaves   *)
(* every other slot as it was; get changes no slot and not the counter.    *)
(***************************************************************************)
\* The object the last call handed to put.
ObjectPut ==
  IF op.name = "unit" THEN Unit
  ELSE IF op.name = "t" THEN Bool(TRUE)
  ELSE IF op.name = "f" THEN Bool(FALSE)
  ELSE IF op.name = "symbol" THEN Symbol(op.arg[1])
  ELSE op.arg[1]

LowestNone(h) ==
  CHOOSE i \in 1..Len(h.nodes) :
     /\ is_none(h.nodes[i])
     /\ \A j \in 1..(i - 1) : ~is_none(h.nodes[j])

C19_PutGetFrame ==
  /\ pc = "idle" /\ op.name \in PutCalls /\ ret.ok =>
       LET i == LowestNone(pre)
       IN  /\ is_none(pre.nodes[i])
           /\ nodes[i] = Some(ObjectPut, pre.time)
           /\ ret = Ok(Gc(i - 1, pre.time))
           /\ time = pre.time + 1
           /\ Len(nodes) = Len(pre.nodes)
           /\ \A j \in 1..Len(nodes) : j # i => nodes[j] = pre.nodes[j]
  /\ Returned("get") => heap = pre

C19_Witness ==
  /\ pc = "idle"
  /\ op.name \in PutCalls
  /\ ret.ok
  /\ reclaimed # {}
  /\ Len(nodes) = 2
  /\ is_none(pre.nodes[1]) /\ is_none(pre.nodes[2])
  /\ ret.value.index = 0
  /\ is_none(nodes[2])

(***************************************************************************)
(* C20: over every sequence of put, mark and sweep the stamp counter never *)
(* decreases; it goes up by one on each successful put and on each sweep;  *)
(* in every state the stamp of each slot that is not None is below the     *)
(* counter and no two such slots carry the same stamp, so that no two      *)
(* pointers put ever returned are equal.                                   *)
(***************************************************************************)
StampsInOrder ==
  /\ \A i \in 1..Len(nodes) : ~is_none(nodes[i]) => nodes[i].timestamp < time
  /\ \A i, j \in 1..Len(nodes) :
        ~is_none(nodes[i]) /\ ~is_none(nodes[j]) /\ i # j =>
          nodes[i].timestamp # nodes[j].timestamp
  /\ \A p \in issued : p.timestamp < time
  /\ \A p, q \in issued : p # q => p.timestamp # q.timestamp
  /\ pc = "idle" /\ op.name \in PutCalls \cup {"pair"} /\ ret.ok =>
        /\ time = pre.time + 1
        /\ ret.value.timestamp = pre.time
  /\ op.name = "sweep" => time = pre.time + 1
  /\ op.name \in {"get", "mark"} => time = pre.time

C20_StampInvariant ==
  /\ []StampsInOrder
  /\ [][time' \in {time, time + 1}]_vars

C20_Witness ==
  /\ pc = "idle"
  /\ op.name \in PutCalls
  /\ ret.ok
  /\ gc.roots # {}
  /\ \E p \in reclaimed : /\ p.index = ret.value.index
                            /\ p.timestamp + 1 < ret.value.timestamp

(***************************************************************************)
(* C21: mark called with a root whose slot is None returns a Pointer error *)
(* to the caller: it does not loop and does not report success; and it     *)
(* leaves every slot and the stamp counter as they were.                   *)
(***************************************************************************)
EmptyRoot == is_none(nodes[m_pointer.index + 1])

EmptyRootFailed ==
  /\ Returned("mark")
  /\ ret = Err("Pointer")
  /\ heap = pre

C21_EmptyRootIsPointerError ==
  /\ [](Returned("mark") /\ is_none(pre.nodes[op.arg[1].index + 1]) => EmptyRootFailed)
  /\ (pc = "mark" /\ EmptyRoot) ~> EmptyRootFailed

C21_Witness ==
  /\ EmptyRootFailed
  /\ op.arg[1] \in reclaimed
  /\ \E i \in 1..Len(nodes) : is_some(nodes[i])

(***************************************************************************)
(* C22: mark called with a stale root, a pointer whose slot was reclaimed  *)
(* and allocated again so that it is Some with another stamp, returns a    *)
(* Pointer error to the caller, as it does for a root whose slot is None.  *)
(***************************************************************************)
StaleRoot ==
  /\ ~is_none(nodes[m_pointer.index + 1])
  /\ nodes[m_pointer.index + 1].timestamp # m_pointer.timestamp

C22_StaleRootIsPointerError ==
  (pc = "mark" /\ StaleRoot) ~> (Returned("mark") /\ ret = Err("Pointer"))

\* What mark does on a stale root in the model: it stays in its loop, and
\* the stamp of the root is never compared.
StaleRootNeverReturns ==
  Returned("mark") =>
    is_none(nodes[op.arg[1].index + 1]) /\ Heap_get(heap, op.arg[1]) = Err("Pointer")

(***************************************************************************)
(* C23: whenever read or show fails for an input line, the driver gives up *)
(* that line only and goes on to prompt for and accept the next line: an   *)
(* error never ends the process, so after any error the driver reads       *)
(* another line.                                                           *)
(***************************************************************************)
C23_ErrorsAreNotFatal ==
  /\ (phase # "typing" /\ ~ret.ok) ~> (phase = "line")
  /\ [](phase # "panicked")

\* What the driver does in the model: every failed read ends the process,
\* and a read that succeeds is followed by the next prompt.
FailedReadPanics ==
  /\ phase \in {"read", "panicked"} => (phase = "panicked" <=> ~ret.ok)
  /\ phase = "panicked" => ret \in {Err("Read"), Err("Space")}

====
